---- MODULE Spec2Model ----
(***************************************************************************)
(* A model of the Veeva Vault REST API wrapper of src/emailUpload.js       *)
(* (lines 119-948): the process-wide session, the request template, the    *)
(* error classifier and every public operation with its promise callback.  *)
(*                                                                         *)
(* A JavaScript object is a function from its keys to their values, so     *)
(* `extend` is the shallow merge it is in the library.  A JavaScript       *)
(* string is a sequence of tokens: the host of the credentials is a        *)
(* sequence of characters (authenticate edits it), a literal or a number   *)
(* appended by `+` is one token (a number through ToString, as `+` does).  *)
(* Values whose type the code tests or that may be null are tagged with    *)
(* their typeof: [t |-> "null"], [t |-> "string", v |-> ...], ...          *)
(***************************************************************************)
EXTENDS Integers, Sequences, FiniteSets, TLC

VARIABLES
  session,   \* var session = {id, host}                (lines 145-148)
  config,    \* var config = {verbose}                  (lines 150-152)
  ops,       \* the invocations of public operations: per caller slot, the
             \* promise the operation returned, the network calls it issued
             \* and the local variables its pending callback closes over
  console,   \* the lines console.log wrote in the step just taken
  response   \* the response body handed to a callback in the step just
             \* taken and the slot of that callback, where the responses
             \* are observed

vars == <<session, config, ops, console, response>>

----------------------------------------------------------------------------
(* Bounds of the model. *)

\* longest list handed to setBinderDocuments / removeBinderDocuments
MaxLen == 3
\* longest host string in the credentials handed to authenticate
MaxHostLen == 3
\* longest list handed to each of two removeBinderDocuments that run side by side
MaxPairLen == 2
\* longest list handed to a sequencer where the responses are observed
MaxReplyLen == 1

----------------------------------------------------------------------------
(* JavaScript values. *)

JsNull == [t |-> "null"]
JsUndefined == [t |-> "undefined"]
JsString(s) == [t |-> "string", v |-> s]
JsNumber(n) == [t |-> "number", v |-> n]
JsBoolean(b) == [t |-> "boolean", v |-> b]

TypeOf(x) == x.t

\* the empty object literal {}
EmptyObject == [k \in {} |-> TRUE]

\* String(x) as `+` applies it to an operand of a string concatenation
ToStr(x) ==
  CASE x.t = "null" -> <<"null">>
    [] x.t = "undefined" -> <<"undefined">>
    [] x.t = "number" -> <<ToString(x.v)>>
    [] x.t = "string" -> x.v
    [] OTHER -> <<"[object Object]">>

\* s contains the tokens of part, next to each other and in order
Contains(s, part) ==
  \E i \in 0..(Len(s) - Len(part)) :
    \A j \in 1..Len(part) : s[i + j] = part[j]

\* the sequences over S of length at most n
SeqUpTo(S, n) == UNION {[1..k -> S] : k \in 0..n}

----------------------------------------------------------------------------
(* Values the caller and the service draw from. *)

BinderIds == {42}
DocumentIds == {101, 102}
NodeIds == {7, 8}
SessionIds == {JsString(<<"s1">>), JsString(<<"s2">>)}
Whitespace == {" "}
HostChars == {"h", "/"} \cup Whitespace

\* the response bodies of the service: any combination of the three fields
\* _handleError looks at, and with a success the data the operation returns
StatusParts ==
  {EmptyObject, [responseStatus |-> "SUCCESS"], [responseStatus |-> "FAILURE"]}
MessageParts == {EmptyObject, [responseMessage |-> "Invalid session"]}
ErrorsParts == {EmptyObject, [errors |-> <<"INVALID_DATA", "PARAMETER_REQUIRED">>]}
Statuses == {s @@ m @@ e : s \in StatusParts, m \in MessageParts, e \in ErrorsParts}

Has(obj, key) == key \in DOMAIN obj
Succeeds(body) == Has(body, "responseStatus") /\ body.responseStatus = "SUCCESS"

\* the bodies the service may answer with: a success carries one of data,
\* and the data may come with none of the three fields
Bodies(data) ==
  {b \in Statuses : ~Succeeds(b)}
    \cup {b @@ d : b \in {x \in Statuses : Succeeds(x)}, d \in data}
    \cup data

----------------------------------------------------------------------------
(* Library helpers. *)

\* extend(target, payload, source) of the "extend" package, not deep: every
\* key of source replaces the key of target.  Its second argument is the
\* `var payload` being declared, still undefined, which extend skips.
extend(target, source) == source @@ target

\* _payloadTemplate                                       (lines 862-870)
_payloadTemplate ==
  [method |-> "GET", headers |-> [Authorization |-> session.id], json |-> TRUE]

\* _output(message): its second argument is not a parameter  (lines 907-911)
_output(message) == IF config.verbose = TRUE THEN <<message>> ELSE <<>>

\* _handleError(method, result, args): what it throws and what it logs
\*                                                          (lines 880-900)
args_message(args) ==
  <<"(">> \o (IF TypeOf(args) = "string" THEN <<" ">> \o args.v \o <<" ">> ELSE <<>>)
    \o <<")">>

\* faulty variant: only an explicit status other than "SUCCESS" is a failure
_handleError_success_by_default(method, result, args) ==
  IF Has(result, "responseStatus") /\ result.responseStatus # "SUCCESS"
  THEN [threw |-> TRUE, output |-> <<>>,
        error |-> [name |-> "Error",
                   message |-> <<"Error in vault.", method>> \o args_message(args)
                                 \o <<": ", "Aborting">>]]
  ELSE [threw |-> FALSE,
        output |-> _output(<<"vault.", method>> \o args_message(args) \o <<": OK">>)]

\* faulty variant: the responseMessage of the service is dropped
_handleError_drops_message(method, result, args) ==
  IF ~(Has(result, "responseStatus") /\ result.responseStatus = "SUCCESS")
  THEN [threw |-> TRUE, output |-> <<>>,
        error |-> [name |-> "Error",
                   message |-> <<"Error in vault.", method>> \o args_message(args)
                                 \o <<": ", "Aborting">>]]
  ELSE [threw |-> FALSE,
        output |-> _output(<<"vault.", method>> \o args_message(args) \o <<": OK">>)]

_handleError(method, result, args) ==
  IF ~(Has(result, "responseStatus") /\ result.responseStatus = "SUCCESS")
  THEN LET message == <<"Error in vault.", method>> \o args_message(args) \o <<": ">>
       IN IF Has(result, "responseMessage")
          THEN [threw |-> TRUE, output |-> <<>>,
                error |-> [name |-> "Error",
                           message |-> message \o <<result.responseMessage>>]]
          ELSE IF Has(result, "errors")
          THEN [threw |-> TRUE, output |-> _output(message),
                error |-> [name |-> "Error", message |-> message \o <<"Aborting">>]]
          ELSE [threw |-> TRUE, output |-> <<>>,
                error |-> [name |-> "Error", message |-> message \o <<"Aborting">>]]
  ELSE LET message == <<"vault.", method>> \o args_message(args) \o <<": OK">>
       IN [threw |-> FALSE, output |-> _output(message)]

----------------------------------------------------------------------------
(* Promises and network calls. *)

\* the caller's slots, each holding the promise of one invocation: Login for
\* authenticate, Worker for an operation on the vault, Twin for a second
\* operation that is compared with the one of Worker
Login == "login"
Worker == "worker"
Twin == "twin"
Slots == {Login, Worker, Twin}

\* the responses are observed for a whole behaviour or not at all: a
\* behaviour that starts with Unobserved keeps it
Unobserved == [t |-> "unobserved"]
NoReply == IF response = Unobserved THEN Unobserved ELSE JsUndefined
Reply(o, result) ==
  IF response = Unobserved THEN Unobserved ELSE [to |-> o, body |-> result]

\* a caller slot that holds no invocation
Idle == [state |-> "idle"]

Pending(o) == ops[o].state = "pending"

\* the promise an operation returns, before its body has run
NewOp(method, args) ==
  [method |-> method, args |-> args, state |-> "pending", value |-> JsUndefined,
   calls |-> <<>>, frame |-> [fn |-> "none"]]

\* rp(payload).then(callback): the request is sent, callback (frame.fn) and
\* the variables it closes over wait for the response
Issue(op, payload, frame) ==
  [op EXCEPT !.calls = Append(@, [payload |-> payload, answer |-> "none"]),
             !.frame = frame]

\* the calls of op that wait for their response
InFlight(op) == {j \in 1..Len(op.calls) : op.calls[j].answer = "none"}

\* the call of op whose response arrives: the one sent first
Oldest(op) == CHOOSE j \in InFlight(op) : \A k \in InFlight(op) : j <= k

\* the response of the call in flight has arrived: "success" or "failure" as
\* the service said in its responseStatus, "error" when rp rejected
Answered(op, answer) ==
  [op EXCEPT !.calls[Oldest(op)].answer = answer]

Outcome(result) == IF Succeeds(result) THEN "success" ELSE "failure"

Fulfil(op, value) ==
  [op EXCEPT !.state = "fulfilled", !.value = value, !.frame = [fn |-> "none"]]

\* faulty variant: the failure is swallowed
RejectSwallowed(op, reason) ==
  [op EXCEPT !.state = "fulfilled", !.value = JsUndefined, !.frame = [fn |-> "none"]]

Reject(op, reason) ==
  [op EXCEPT !.state = "rejected", !.value = reason, !.frame = [fn |-> "none"]]

\* the callback fn of slot o is due: its call is in flight
Awaits(o, fn) ==
  /\ Pending(o)
  /\ ops[o].frame.fn = fn
  /\ InFlight(ops[o]) # {}

\* a caller slot is free for a new invocation once its promise has settled
Free(o) == ~Pending(o)

\* the end of a callback that classifies the response and returns value
Settle(op, result, h, value) ==
  IF h.threw
  THEN Reject(Answered(op, Outcome(result)), h.error)
  ELSE Fulfil(Answered(op, Outcome(result)), value)

\* what reading a property of undefined throws
TypeError == [name |-> "TypeError"]

\* result.key, undefined when the response has no such key
Get(result, key) == IF Has(result, key) THEN result[key] ELSE JsUndefined

\* rp(payload) rejects (no response, or a status code that is not 2xx): no
\* callback of the library runs, the error of request-promise, which carries
\* its own message and the request's options, rejects the promise the
\* operation returned
rp_rejected(o) ==
  /\ Pending(o)
  /\ InFlight(ops[o]) # {}
  /\ LET op == ops[o]
         payload == op.calls[Oldest(op)].payload
     IN ops' = [ops EXCEPT ![o] =
                  Reject(Answered(op, "error"),
                         [name |-> "RequestError", message |-> <<"request failed">>,
                          options |-> payload])]
  /\ console' = <<>>
  /\ response' = NoReply
  /\ UNCHANGED <<session, config>>

----------------------------------------------------------------------------
(* authenticate                                            (lines 167-190) *)

\* faulty variant: /\s$/, one whitespace character is stripped
StripOneWhitespace(host) ==
  IF Len(host) > 0 /\ host[Len(host)] \in Whitespace
  THEN SubSeq(host, 1, Len(host) - 1)
  ELSE host

\* credentials.host.replace(/[\s]{1,}$/, "")
RECURSIVE StripTrailingWhitespace(_)
StripTrailingWhitespace(host) ==
  IF Len(host) > 0 /\ host[Len(host)] \in Whitespace
  THEN StripTrailingWhitespace(SubSeq(host, 1, Len(host) - 1))
  ELSE host

\* faulty variant: no slash is appended
AppendSlashNever(host) == host

\* credentials.host += credentials.host[length - 1] == "/" ? "" : "/"
AppendSlash(host) ==
  IF Len(host) > 0 /\ host[Len(host)] = "/" THEN host ELSE host \o <<"/">>

NormalizeHost(host) == AppendSlash(StripTrailingWhitespace(host))

authenticate(o, credentials) ==
  /\ Free(o)
  /\ LET normalized == [credentials EXCEPT !.host = NormalizeHost(credentials.host)]
         payload == extend(_payloadTemplate,
                      [uri |-> normalized.host \o <<"auth">>,
                       method |-> "POST",
                       headers |-> EmptyObject,
                       form |-> [username |-> normalized.username,
                                 password |-> normalized.password]])
     IN ops' = [ops EXCEPT ![o] =
                  Issue(NewOp("authenticate", [credentials |-> credentials]), payload,
                        [fn |-> "authenticate", credentials |-> normalized])]
  /\ console' = <<>>
  /\ response' = NoReply
  /\ UNCHANGED <<session, config>>

\* faulty variant: the session is stored before the response is classified
authenticate_then_stores_first(o, result) ==
  /\ Awaits(o, "authenticate")
  /\ LET op == ops[o]
         h == _handleError("authenticate", result, JsUndefined)
     IN /\ console' = h.output
        /\ response' = Reply(o, result)
        /\ session' = [host |-> JsString(op.frame.credentials.host),
                       id |-> Get(result, "sessionId")]
        /\ ops' = [ops EXCEPT ![o] = Settle(op, result, h, JsUndefined)]
  /\ UNCHANGED config

\* faulty variant: session.host is assigned before the response is
\* classified, session.id after
authenticate_then_host_first(o, result) ==
  /\ Awaits(o, "authenticate")
  /\ LET op == ops[o]
         h == _handleError("authenticate", result, JsUndefined)
     IN /\ console' = h.output
        /\ response' = Reply(o, result)
        /\ session' = [host |-> JsString(op.frame.credentials.host),
                       id |-> IF h.threw THEN session.id
                              ELSE Get(result, "sessionId")]
        /\ ops' = [ops EXCEPT ![o] = Settle(op, result, h, JsUndefined)]
  /\ UNCHANGED config

authenticate_then(o, result) ==
  /\ Awaits(o, "authenticate")
  /\ LET op == ops[o]
         h == _handleError("authenticate", result, JsUndefined)
     IN /\ console' = h.output
        /\ response' = Reply(o, result)
        /\ IF h.threw
           THEN /\ ops' = [ops EXCEPT ![o] =
                             Reject(Answered(op, Outcome(result)), h.error)]
                /\ UNCHANGED session
           ELSE /\ session' = [host |-> JsString(op.frame.credentials.host),
                               id |-> Get(result, "sessionId")]
                /\ ops' = [ops EXCEPT ![o] =
                             Fulfil(Answered(op, Outcome(result)), JsUndefined)]
  /\ UNCHANGED config

----------------------------------------------------------------------------
(* removeBinderDocuments                                   (lines 364-394) *)

\* faulty variant: the empty list is not told apart
NoDocumentsNever(documents) == FALSE

\* documents.length == 0                                  (lines 365, 405)
NoDocuments(documents) == Len(documents) = 0

\* documents[0], undefined when the array is empty
First(documents) == IF Len(documents) > 0 THEN documents[1] ELSE JsUndefined

\* faulty variant: two elements are taken off the list
Slice2(documents) == SubSeq(documents, 3, Len(documents))

\* documents.slice(1)
Slice1(documents) == SubSeq(documents, 2, Len(documents))

\* faulty variant: an object is taken for its document_id
NodeIdOfDocument(first) ==
  IF TypeOf(first) = "object" THEN first.document_id ELSE first

\* the node id of an element: the element, or its node_id when it is an
\* object                                                 (lines 370-376)
NodeIdOf(first) == IF TypeOf(first) = "object" THEN first.node_id ELSE first

\* the args of _handleError                                (line 389)
removeBinderDocuments_args(binder_id, node_id) ==
  JsString(<<"binder_id = ", ToString(binder_id), ", node_id = ">> \o ToStr(node_id))

\* faulty variant: the empty list returns q.defer().promise, which nothing
\* resolves
removeBinderDocuments_body_deferred(op, binder_id, documents) ==
  IF NoDocuments(documents)
  THEN [op EXCEPT !.frame = [fn |-> "none"]]
  ELSE LET node_id == NodeIdOf(First(documents))
           rest == Slice1(documents)
           payload == extend(_payloadTemplate,
                        [uri |-> ToStr(session.host)
                                   \o <<"objects/binders/", ToString(binder_id),
                                        "/documents/">> \o ToStr(node_id),
                         method |-> "DELETE"])
       IN Issue(op, payload,
                [fn |-> "removeBinderDocuments", binder_id |-> binder_id,
                 documents |-> rest, node_id |-> node_id])

\* faulty variant: the first element is taken off with documents.shift(),
\* which changes the array of the caller
removeBinderDocuments_body_shift(op, binder_id, documents) ==
  IF NoDocuments(documents)
  THEN Fulfil(op, JsUndefined)
  ELSE LET node_id == NodeIdOf(First(documents))
           rest == Slice1(documents)
           payload == extend(_payloadTemplate,
                        [uri |-> ToStr(session.host)
                                   \o <<"objects/binders/", ToString(binder_id),
                                        "/documents/">> \o ToStr(node_id),
                         method |-> "DELETE"])
       IN [Issue(op, payload,
                 [fn |-> "removeBinderDocuments", binder_id |-> binder_id,
                  documents |-> rest, node_id |-> node_id])
             EXCEPT !.args.documents = rest]

removeBinderDocuments_body(op, binder_id, documents) ==
  IF NoDocuments(documents)
  THEN Fulfil(op, JsUndefined)
  ELSE LET node_id == NodeIdOf(First(documents))
           rest == Slice1(documents)
           payload == extend(_payloadTemplate,
                        [uri |-> ToStr(session.host)
                                   \o <<"objects/binders/", ToString(binder_id),
                                        "/documents/">> \o ToStr(node_id),
                         method |-> "DELETE"])
       IN Issue(op, payload,
                [fn |-> "removeBinderDocuments", binder_id |-> binder_id,
                 documents |-> rest, node_id |-> node_id])

removeBinderDocuments(o, binder_id, documents) ==
  /\ Free(o)
  /\ ops' = [ops EXCEPT ![o] =
               removeBinderDocuments_body(
                 NewOp("removeBinderDocuments",
                       [binder_id |-> binder_id, documents |-> documents]),
                 binder_id, documents)]
  /\ console' = <<>>
  /\ response' = NoReply
  /\ UNCHANGED <<session, config>>

removeBinderDocuments_then(o, result) ==
  /\ Awaits(o, "removeBinderDocuments")
  /\ LET op == ops[o]
         f == op.frame
         h == _handleError("removeBinderDocuments", result,
                           removeBinderDocuments_args(f.binder_id, f.node_id))
     IN /\ console' = h.output
        /\ response' = Reply(o, result)
        /\ ops' = [ops EXCEPT ![o] =
                     IF h.threw
                     THEN Reject(Answered(op, Outcome(result)), h.error)
                     ELSE removeBinderDocuments_body(Answered(op, Outcome(result)),
                                                     f.binder_id, f.documents)]
  /\ UNCHANGED <<session, config>>

----------------------------------------------------------------------------
(* setBinderDocuments                                      (lines 404-441) *)

\* faulty variant: the message names the binder only
setBinderDocuments_args_binder(binder_id, document_id, index) ==
  JsString(<<"binder_id = ", ToString(binder_id)>>)

\* the args of _handleError                                (lines 430-435)
setBinderDocuments_args(binder_id, document_id, index) ==
  JsString(<<"binder_id = ", ToString(binder_id)>>
             \o <<", document_id = ">> \o ToStr(document_id)
             \o <<", index = ">> \o ToStr(index))

\* faulty variant: the index is not incremented
IncrementForgotten(index) == index

\* index++                                                 (line 438)
Increment(index) == JsNumber(index.v + 1)

\* faulty variant: the headers are built for the first call and used again
\* for the calls that follow
setBinderDocuments_body_reuses_headers(op, binder_id, document_ids, index) ==
  IF NoDocuments(document_ids)
  THEN Fulfil(op, JsUndefined)
  ELSE LET order == IF TypeOf(index) # "number" THEN JsNumber(1) ELSE index
           document_id == First(document_ids)
           rest == Slice1(document_ids)
           template == IF Len(op.calls) = 0 THEN _payloadTemplate
                       ELSE [_payloadTemplate EXCEPT
                               !.headers = op.calls[1].payload.headers]
           payload == extend(template,
                        [uri |-> ToStr(session.host)
                                   \o <<"objects/binders/", ToString(binder_id),
                                        "/documents">>,
                         method |-> "POST",
                         form |-> [document_id__v |-> document_id,
                                   order__v |-> order]])
       IN Issue(op, payload,
                [fn |-> "setBinderDocuments", binder_id |-> binder_id,
                 document_ids |-> rest, document_id |-> document_id,
                 index |-> order])

setBinderDocuments_body(op, binder_id, document_ids, index) ==
  IF NoDocuments(document_ids)
  THEN Fulfil(op, JsUndefined)
  ELSE LET order == IF TypeOf(index) # "number" THEN JsNumber(1) ELSE index
           document_id == First(document_ids)
           rest == Slice1(document_ids)
           payload == extend(_payloadTemplate,
                        [uri |-> ToStr(session.host)
                                   \o <<"objects/binders/", ToString(binder_id),
                                        "/documents">>,
                         method |-> "POST",
                         form |-> [document_id__v |-> document_id,
                                   order__v |-> order]])
       IN Issue(op, payload,
                [fn |-> "setBinderDocuments", binder_id |-> binder_id,
                 document_ids |-> rest, document_id |-> document_id,
                 index |-> order])

setBinderDocuments(o, binder_id, document_ids) ==
  /\ Free(o)
  /\ ops' = [ops EXCEPT ![o] =
               setBinderDocuments_body(
                 NewOp("setBinderDocuments",
                       [binder_id |-> binder_id, document_ids |-> document_ids]),
                 binder_id, document_ids, JsUndefined)]
  /\ console' = <<>>
  /\ response' = NoReply
  /\ UNCHANGED <<session, config>>

setBinderDocuments_then(o, result) ==
  /\ Awaits(o, "setBinderDocuments")
  /\ LET op == ops[o]
         f == op.frame
         h == _handleError("setBinderDocuments", result,
                setBinderDocuments_args(f.binder_id, f.document_id, f.index))
     IN /\ console' = h.output
        /\ response' = Reply(o, result)
        /\ ops' = [ops EXCEPT ![o] =
                     IF h.threw
                     THEN Reject(Answered(op, Outcome(result)), h.error)
                     ELSE setBinderDocuments_body(Answered(op, Outcome(result)),
                            f.binder_id, f.document_ids, Increment(f.index))]
  /\ UNCHANGED <<session, config>>

----------------------------------------------------------------------------
(* getVaultObjects, getProducts, getCountries              (lines 212-240) *)

getVaultObjects_body(op, object_type) ==
  Issue(op,
        extend(_payloadTemplate,
               [uri |-> ToStr(session.host) \o <<"vobjects/", object_type>>]),
        [fn |-> "getVaultObjects", object_type |-> object_type])

getVaultObjects(o, object_type) ==
  /\ Free(o)
  /\ ops' = [ops EXCEPT ![o] =
               getVaultObjects_body(
                 NewOp("getVaultObjects", [object_type |-> object_type]), object_type)]
  /\ console' = <<>>
  /\ response' = NoReply
  /\ UNCHANGED <<session, config>>

getProducts(o) ==
  /\ Free(o)
  /\ ops' = [ops EXCEPT ![o] =
               getVaultObjects_body(NewOp("getProducts", EmptyObject), "product__v")]
  /\ console' = <<>>
  /\ response' = NoReply
  /\ UNCHANGED <<session, config>>

getCountries(o) ==
  /\ Free(o)
  /\ ops' = [ops EXCEPT ![o] =
               getVaultObjects_body(NewOp("getCountries", EmptyObject), "country__v")]
  /\ console' = <<>>
  /\ response' = NoReply
  /\ UNCHANGED <<session, config>>

getVaultObjects_then(o, all_objects) ==
  /\ Awaits(o, "getVaultObjects")
  /\ LET op == ops[o]
         h == _handleError("getVaultObjects", all_objects,
                JsString(<<"object_type = ", op.frame.object_type>>))
     IN /\ console' = h.output
        /\ response' = Reply(o, all_objects)
        /\ ops' = [ops EXCEPT ![o] =
                     Settle(op, all_objects, h, Get(all_objects, "data"))]
  /\ UNCHANGED <<session, config>>

----------------------------------------------------------------------------
(* getBinders                                              (lines 275-295) *)

getBinders(o) ==
  /\ Free(o)
  /\ ops' = [ops EXCEPT ![o] =
               Issue(NewOp("getBinders", EmptyObject),
                     extend(_payloadTemplate,
                            [uri |-> ToStr(session.host) \o <<"objects/documents">>]),
                     [fn |-> "getBinders"])]
  /\ console' = <<>>
  /\ response' = NoReply
  /\ UNCHANGED <<session, config>>

\* the documents of result.documents with binder__v == true, in their order
RECURSIVE BindersOf(_)
BindersOf(documents) ==
  IF documents = <<>>
  THEN <<>>
  ELSE (IF documents[1].document.binder__v = TRUE
        THEN <<documents[1].document>>
        ELSE <<>>) \o BindersOf(SubSeq(documents, 2, Len(documents)))

getBinders_then(o, result) ==
  /\ Awaits(o, "getBinders")
  /\ LET op == ops[o]
         h == _handleError("getBinders", result, JsUndefined)
     IN /\ console' = h.output
        /\ response' = Reply(o, result)
        /\ ops' = [ops EXCEPT ![o] =
                     IF ~h.threw /\ ~Has(result, "documents")
                     THEN Reject(Answered(op, Outcome(result)), TypeError)
                     ELSE Settle(op, result, h, IF h.threw THEN JsUndefined
                                        ELSE BindersOf(result.documents))]
  /\ UNCHANGED <<session, config>>

----------------------------------------------------------------------------
(* getBinder, getBinderDocuments                           (lines 303-342) *)

\* next: what the caller chained on the promise of getBinder
getBinder_body(op, binder_id, next) ==
  Issue(op,
        extend(_payloadTemplate,
               [uri |-> ToStr(session.host)
                          \o <<"objects/binders/", ToString(binder_id)>>]),
        [fn |-> "getBinder", binder_id |-> binder_id, next |-> next])

getBinder(o, binder_id) ==
  /\ Free(o)
  /\ ops' = [ops EXCEPT ![o] =
               getBinder_body(NewOp("getBinder", [binder_id |-> binder_id]),
                              binder_id, "return")]
  /\ console' = <<>>
  /\ response' = NoReply
  /\ UNCHANGED <<session, config>>

getBinderDocuments(o, binder_id) ==
  /\ Free(o)
  /\ ops' = [ops EXCEPT ![o] =
               getBinder_body(NewOp("getBinderDocuments", [binder_id |-> binder_id]),
                              binder_id, "getBinderDocuments")]
  /\ console' = <<>>
  /\ response' = NoReply
  /\ UNCHANGED <<session, config>>

\* faulty variant: documents.unshift(...) where the code pushes
DocumentsOf_unshift(binder) ==
  [i \in 1..Len(binder.binder.nodes) |->
     LET node == binder.binder.nodes[Len(binder.binder.nodes) + 1 - i]
     IN [node_id |-> node.properties.id,
         document_id |-> node.properties.document_id__v]]

\* the callback of getBinderDocuments: one {node_id, document_id} per node
DocumentsOf(binder) ==
  [i \in 1..Len(binder.binder.nodes) |->
     [node_id |-> binder.binder.nodes[i].properties.id,
      document_id |-> binder.binder.nodes[i].properties.document_id__v]]

getBinder_then(o, result) ==
  /\ Awaits(o, "getBinder")
  /\ LET op == ops[o]
         h == _handleError("getBinder", result,
                JsString(<<"binder_id = ", ToString(op.frame.binder_id)>>))
     IN /\ console' = h.output
        /\ response' = Reply(o, result)
        /\ ops' = [ops EXCEPT ![o] =
                     IF /\ ~h.threw
                        /\ op.frame.next = "getBinderDocuments"
                        /\ ~Has(result, "binder")
                     THEN Reject(Answered(op, Outcome(result)), TypeError)
                     ELSE Settle(op, result, h,
                                 IF h.threw THEN JsUndefined
                                 ELSE IF op.frame.next = "getBinderDocuments"
                                 THEN DocumentsOf(result)
                                 ELSE result)]
  /\ UNCHANGED <<session, config>>

----------------------------------------------------------------------------
(* createBinder, updateBinder, deleteBinder                (lines 469-526) *)

createBinder(o, binder_data) ==
  /\ Free(o)
  /\ ops' = [ops EXCEPT ![o] =
               Issue(NewOp("createBinder", [binder_data |-> binder_data]),
                     extend(_payloadTemplate,
                            [uri |-> ToStr(session.host) \o <<"objects/binders">>,
                             method |-> "POST",
                             form |-> binder_data]),
                     [fn |-> "createBinder", binder_data |-> binder_data])]
  /\ console' = <<>>
  /\ response' = NoReply
  /\ UNCHANGED <<session, config>>

createBinder_then(o, result) ==
  /\ Awaits(o, "createBinder")
  /\ LET op == ops[o]
         h == _handleError("createBinder", result,
                JsString(<<"binder_data.title__v = ", op.frame.binder_data.title__v>>))
     IN /\ console' = h.output
        /\ response' = Reply(o, result)
        /\ ops' = [ops EXCEPT ![o] =
                     IF h.threw
                     THEN Reject(Answered(op, Outcome(result)), h.error)
                     ELSE getBinder_body(Answered(op, Outcome(result)), Get(result, "id"),
                                         "return")]
  /\ UNCHANGED <<session, config>>

updateBinder(o, binder_id, binder_data) ==
  /\ Free(o)
  /\ ops' = [ops EXCEPT ![o] =
               Issue(NewOp("updateBinder",
                           [binder_id |-> binder_id, binder_data |-> binder_data]),
                     extend(_payloadTemplate,
                            [uri |-> ToStr(session.host)
                                       \o <<"objects/binders/", ToString(binder_id)>>,
                             method |-> "PUT",
                             form |-> binder_data]),
                     [fn |-> "updateBinder", binder_id |-> binder_id,
                      binder_data |-> binder_data])]
  /\ console' = <<>>
  /\ response' = NoReply
  /\ UNCHANGED <<session, config>>

updateBinder_then(o, result) ==
  /\ Awaits(o, "updateBinder")
  /\ LET op == ops[o]
         h == _handleError("updateBinder", result,
                JsString(<<"binder_id = ", ToString(op.frame.binder_id),
                           ", binder_data.name__v = ", op.frame.binder_data.name__v>>))
     IN /\ console' = h.output
        /\ response' = Reply(o, result)
        /\ ops' = [ops EXCEPT ![o] = Settle(op, result, h, JsUndefined)]
  /\ UNCHANGED <<session, config>>

deleteBinder(o, binder_id) ==
  /\ Free(o)
  /\ ops' = [ops EXCEPT ![o] =
               Issue(NewOp("deleteBinder", [binder_id |-> binder_id]),
                     extend(_payloadTemplate,
                            [uri |-> ToStr(session.host)
                                       \o <<"objects/binders/", ToString(binder_id)>>,
                             method |-> "DELETE"]),
                     [fn |-> "deleteBinder", binder_id |-> binder_id])]
  /\ console' = <<>>
  /\ response' = NoReply
  /\ UNCHANGED <<session, config>>

\* faulty variant: a failed request is sent again
deleteBinder_then_retries(o, result) ==
  /\ Awaits(o, "deleteBinder")
  /\ LET op == ops[o]
         h == _handleError("deleteBinder", result,
                JsString(<<"binder_id = ", ToString(op.frame.binder_id)>>))
     IN /\ console' = h.output
        /\ response' = Reply(o, result)
        /\ ops' = [ops EXCEPT ![o] =
                     IF h.threw /\ Len(op.calls) < 2
                     THEN Issue(Answered(op, Outcome(result)),
                                op.calls[Len(op.calls)].payload, op.frame)
                     ELSE Settle(op, result, h, JsUndefined)]
  /\ UNCHANGED <<session, config>>

\* faulty variant: a failed response drops the session
deleteBinder_then_logout(o, result) ==
  /\ Awaits(o, "deleteBinder")
  /\ LET op == ops[o]
         h == _handleError("deleteBinder", result,
                JsString(<<"binder_id = ", ToString(op.frame.binder_id)>>))
     IN /\ console' = h.output
        /\ response' = Reply(o, result)
        /\ ops' = [ops EXCEPT ![o] = Settle(op, result, h, JsUndefined)]
        /\ session' = IF h.threw THEN [id |-> JsNull, host |-> JsNull] ELSE session
  /\ UNCHANGED config

deleteBinder_then(o, result) ==
  /\ Awaits(o, "deleteBinder")
  /\ LET op == ops[o]
         h == _handleError("deleteBinder", result,
                JsString(<<"binder_id = ", ToString(op.frame.binder_id)>>))
     IN /\ console' = h.output
        /\ response' = Reply(o, result)
        /\ ops' = [ops EXCEPT ![o] = Settle(op, result, h, JsUndefined)]
  /\ UNCHANGED <<session, config>>

----------------------------------------------------------------------------
(* createDocument, updateDocument                          (lines 539-591) *)

createDocument(o, document_data) ==
  /\ Free(o)
  /\ ops' = [ops EXCEPT ![o] =
               Issue(NewOp("createDocument", [document_data |-> document_data]),
                     extend(_payloadTemplate,
                            [uri |-> ToStr(session.host) \o <<"objects/documents">>,
                             method |-> "POST",
                             formData |-> document_data]),
                     [fn |-> "createDocument", document_data |-> document_data])]
  /\ console' = <<>>
  /\ response' = NoReply
  /\ UNCHANGED <<session, config>>

createDocument_then(o, result) ==
  /\ Awaits(o, "createDocument")
  /\ LET op == ops[o]
         h == _handleError("createDocument", result,
                JsString(<<"document.name__v = ", op.frame.document_data.name__v>>))
     IN /\ console' = h.output
        /\ response' = Reply(o, result)
        /\ ops' = [ops EXCEPT ![o] = Settle(op, result, h, Get(result, "id"))]
  /\ UNCHANGED <<session, config>>

updateDocument(o, document_id, document_data) ==
  /\ Free(o)
  /\ ops' = [ops EXCEPT ![o] =
               Issue(NewOp("updateDocument",
                           [document_id |-> document_id,
                            document_data |-> document_data]),
                     extend(_payloadTemplate,
                            [uri |-> ToStr(session.host)
                                       \o <<"objects/documents/", ToString(document_id)>>,
                             method |-> "PUT",
                             form |-> document_data]),
                     [fn |-> "updateDocument", document_id |-> document_id,
                      document_data |-> document_data])]
  /\ console' = <<>>
  /\ response' = NoReply
  /\ UNCHANGED <<session, config>>

updateDocument_then(o, result) ==
  /\ Awaits(o, "updateDocument")
  /\ LET op == ops[o]
         h == _handleError("updateDocument", result,
                JsString(<<"document.id = ", ToString(op.frame.document_id),
                           ", document_data.name__v = ",
                           op.frame.document_data.name__v>>))
     IN /\ console' = h.output
        /\ response' = Reply(o, result)
        /\ ops' = [ops EXCEPT ![o] = Settle(op, result, h, Get(result, "id"))]
  /\ UNCHANGED <<session, config>>

----------------------------------------------------------------------------
(* lockDocument, unlockDocument                            (lines 811-837) *)

\* faulty variant: the update is sent with the lock, not chained on it
lockDocument_body_unchained(op, document_id, next) ==
  LET locked == Issue(op,
                  extend(_payloadTemplate,
                         [uri |-> ToStr(session.host)
                                    \o <<"objects/documents/", ToString(document_id),
                                         "/lock">>,
                          method |-> "POST"]),
                  [fn |-> "lockDocument", document_id |-> document_id, next |-> next])
  IN IF next.fn = "updateDocumentFile"
     THEN Issue(locked, next.payload,
                [fn |-> "updateDocumentFile", document_id |-> document_id])
     ELSE locked

\* next: what the caller chained on the promise of lockDocument
lockDocument_body(op, document_id, next) ==
  Issue(op,
        extend(_payloadTemplate,
               [uri |-> ToStr(session.host)
                          \o <<"objects/documents/", ToString(document_id), "/lock">>,
                method |-> "POST"]),
        [fn |-> "lockDocument", document_id |-> document_id, next |-> next])

lockDocument(o, document_id) ==
  /\ Free(o)
  /\ ops' = [ops EXCEPT ![o] =
               lockDocument_body(NewOp("lockDocument", [document_id |-> document_id]),
                                 document_id, [fn |-> "return"])]
  /\ console' = <<>>
  /\ response' = NoReply
  /\ UNCHANGED <<session, config>>

\* faulty variant: the unlock is a POST, which locks
unlockDocument_body_post(op, document_id) ==
  Issue(op,
        extend(_payloadTemplate,
               [uri |-> ToStr(session.host)
                          \o <<"objects/documents/", ToString(document_id), "/lock">>,
                method |-> "POST"]),
        [fn |-> "unlockDocument", document_id |-> document_id])

unlockDocument_body(op, document_id) ==
  Issue(op,
        extend(_payloadTemplate,
               [uri |-> ToStr(session.host)
                          \o <<"objects/documents/", ToString(document_id), "/lock">>,
                method |-> "DELETE"]),
        [fn |-> "unlockDocument", document_id |-> document_id])

unlockDocument(o, document_id) ==
  /\ Free(o)
  /\ ops' = [ops EXCEPT ![o] =
               unlockDocument_body(
                 NewOp("unlockDocument", [document_id |-> document_id]), document_id)]
  /\ console' = <<>>
  /\ response' = NoReply
  /\ UNCHANGED <<session, config>>

unlockDocument_then(o, result) ==
  /\ Awaits(o, "unlockDocument")
  /\ LET op == ops[o]
         h == _handleError("unlockDocument", result,
                JsString(<<"document_id = ", ToString(op.frame.document_id)>>))
     IN /\ console' = h.output
        /\ response' = Reply(o, result)
        /\ ops' = [ops EXCEPT ![o] = Settle(op, result, h, JsUndefined)]
  /\ UNCHANGED <<session, config>>

----------------------------------------------------------------------------
(* updateDocumentFile                                      (lines 602-624) *)

\* the payload of the update is built before the document is locked
updateDocumentFile(o, document_id, document_file) ==
  /\ Free(o)
  /\ LET payload == extend(_payloadTemplate,
                      [uri |-> ToStr(session.host)
                                 \o <<"objects/documents/", ToString(document_id)>>,
                       type |-> "update",
                       method |-> "POST",
                       formData |-> [file |-> document_file]])
     IN ops' = [ops EXCEPT ![o] =
                  lockDocument_body(
                    NewOp("updateDocumentFile",
                          [document_id |-> document_id, document_file |-> document_file]),
                    document_id,
                    [fn |-> "updateDocumentFile", payload |-> payload,
                     document_id |-> document_id])]
  /\ console' = <<>>
  /\ response' = NoReply
  /\ UNCHANGED <<session, config>>

\* the callback of lockDocument and, when it returns, the callback that
\* updateDocumentFile chained on it, which sends the update
lockDocument_then(o, result) ==
  /\ Awaits(o, "lockDocument")
  /\ LET op == ops[o]
         next == op.frame.next
         h == _handleError("lockDocument", result,
                JsString(<<"document_id = ", ToString(op.frame.document_id)>>))
     IN /\ console' = h.output
        /\ response' = Reply(o, result)
        /\ ops' = [ops EXCEPT ![o] =
                     IF h.threw \/ next.fn = "return"
                     THEN Settle(op, result, h, JsUndefined)
                     ELSE Issue(Answered(op, Outcome(result)), next.payload,
                                [fn |-> "updateDocumentFile",
                                 document_id |-> next.document_id])]
  /\ UNCHANGED <<session, config>>

\* faulty variant: the promise is fulfilled with the update, no unlock is sent
updateDocumentFile_then_keeps_lock(o, result) ==
  /\ Awaits(o, "updateDocumentFile")
  /\ LET op == ops[o]
         h == _handleError("updateDocumentFile", result,
                JsString(<<"document.id = ", ToString(op.frame.document_id)>>))
     IN /\ console' = h.output
        /\ response' = Reply(o, result)
        /\ ops' = [ops EXCEPT ![o] = Settle(op, result, h, JsUndefined)]
  /\ UNCHANGED <<session, config>>

\* faulty variant: the unlock is sent after a failed update too
updateDocumentFile_then_unlocks_always(o, result) ==
  /\ Awaits(o, "updateDocumentFile")
  /\ LET op == ops[o]
         h == _handleError("updateDocumentFile", result,
                JsString(<<"document.id = ", ToString(op.frame.document_id)>>))
     IN /\ console' = h.output
        /\ response' = Reply(o, result)
        /\ ops' = [ops EXCEPT ![o] =
                     unlockDocument_body(Answered(op, Outcome(result)),
                                         op.frame.document_id)]
  /\ UNCHANGED <<session, config>>

updateDocumentFile_then(o, result) ==
  /\ Awaits(o, "updateDocumentFile")
  /\ LET op == ops[o]
         h == _handleError("updateDocumentFile", result,
                JsString(<<"document.id = ", ToString(op.frame.document_id)>>))
     IN /\ console' = h.output
        /\ response' = Reply(o, result)
        /\ ops' = [ops EXCEPT ![o] =
                     IF h.threw
                     THEN Reject(Answered(op, Outcome(result)), h.error)
                     ELSE unlockDocument_body(Answered(op, Outcome(result)),
                                              op.frame.document_id)]
  /\ UNCHANGED <<session, config>>

----------------------------------------------------------------------------
(* Document relationships                                  (lines 637-762) *)

\* path.join("/")
\* faulty variant: path.join("")
RECURSIVE JoinWithoutSeparator(_, _)
JoinWithoutSeparator(parts, separator) ==
  IF Len(parts) = 0 THEN <<>>
  ELSE <<parts[1]>> \o JoinWithoutSeparator(SubSeq(parts, 2, Len(parts)), separator)

RECURSIVE Join(_, _)
Join(parts, separator) ==
  IF Len(parts) = 0 THEN <<>>
  ELSE IF Len(parts) = 1 THEN <<parts[1]>>
  ELSE <<parts[1], separator>> \o Join(SubSeq(parts, 2, Len(parts)), separator)

_getRelationshipsPath(document) ==
  Join(<<"objects", "documents", ToString(document.id), "versions",
         ToString(document.version_major), ToString(document.version_minor),
         "relationships">>, "/")

createDocumentRelationship(o, document, shared_document_id) ==
  /\ Free(o)
  /\ LET path == _getRelationshipsPath(document)
     IN ops' = [ops EXCEPT ![o] =
                  Issue(NewOp("createDocumentRelationship",
                              [document |-> document,
                               shared_document_id |-> shared_document_id]),
                        extend(_payloadTemplate,
                               [url |-> ToStr(session.host) \o path,
                                method |-> "POST",
                                form |-> [relationship_type__v |->
                                            "related_shared_resource__v",
                                          target_doc_id__v |-> shared_document_id]]),
                        [fn |-> "createDocumentRelationship", document |-> document,
                         shared_document_id |-> shared_document_id])]
  /\ console' = <<>>
  /\ response' = NoReply
  /\ UNCHANGED <<session, config>>

createDocumentRelationship_then(o, result) ==
  /\ Awaits(o, "createDocumentRelationship")
  /\ LET op == ops[o]
         h == _handleError("createDocumentRelationship", result,
                JsString(<<"document_id = ", ToString(op.frame.document.id),
                           ", shared_document_id = ",
                           ToString(op.frame.shared_document_id)>>))
     IN /\ console' = h.output
        /\ response' = Reply(o, result)
        /\ ops' = [ops EXCEPT ![o] = Settle(op, result, h, JsUndefined)]
  /\ UNCHANGED <<session, config>>

getDocumentRelationships(o, document) ==
  /\ Free(o)
  /\ LET path == _getRelationshipsPath(document)
     IN ops' = [ops EXCEPT ![o] =
                  Issue(NewOp("getDocumentRelationships", [document |-> document]),
                        extend(_payloadTemplate,
                               [url |-> ToStr(session.host) \o path]),
                        [fn |-> "getDocumentRelationships", document |-> document])]
  /\ console' = <<>>
  /\ response' = NoReply
  /\ UNCHANGED <<session, config>>

getDocumentRelationships_then(o, result) ==
  /\ Awaits(o, "getDocumentRelationships")
  /\ LET op == ops[o]
         h == _handleError("getDocumentRelationships", result,
                JsString(<<"document_id = ", ToString(op.frame.document.id),
                           ", version_major = ",
                           ToString(op.frame.document.version_major),
                           ", version_minor = ",
                           ToString(op.frame.document.version_minor)>>))
     IN /\ console' = h.output
        /\ response' = Reply(o, result)
        /\ ops' = [ops EXCEPT ![o] =
                     Settle(op, result, h, Get(result, "relationships"))]
  /\ UNCHANGED <<session, config>>

removeDocumentRelationship(o, document, relationship_id) ==
  /\ Free(o)
  /\ LET path == _getRelationshipsPath(document)
     IN ops' = [ops EXCEPT ![o] =
                  Issue(NewOp("removeDocumentRelationship",
                              [document |-> document,
                               relationship_id |-> relationship_id]),
                        extend(_payloadTemplate,
                               [url |-> ToStr(session.host) \o path
                                          \o <<"/", ToString(relationship_id)>>,
                                method |-> "DELETE"]),
                        [fn |-> "removeDocumentRelationship", document |-> document,
                         relationship_id |-> relationship_id])]
  /\ console' = <<>>
  /\ response' = NoReply
  /\ UNCHANGED <<session, config>>

removeDocumentRelationship_then(o, result) ==
  /\ Awaits(o, "removeDocumentRelationship")
  /\ LET op == ops[o]
         h == _handleError("removeDocumentRelationship", result,
                JsString(<<"document_id = ", ToString(op.frame.document.id),
                           ", version_major = ",
                           ToString(op.frame.document.version_major),
                           ", version_minor = ",
                           ToString(op.frame.document.version_minor),
                           ", relationship_id = ",
                           ToString(op.frame.relationship_id)>>))
     IN /\ console' = h.output
        /\ response' = Reply(o, result)
        /\ ops' = [ops EXCEPT ![o] = Settle(op, result, h, JsUndefined)]
  /\ UNCHANGED <<session, config>>

----------------------------------------------------------------------------
(* getDocument, deleteDocument                             (lines 772-803) *)

getDocument(o, document_id) ==
  /\ Free(o)
  /\ ops' = [ops EXCEPT ![o] =
               Issue(NewOp("getDocument", [document_id |-> document_id]),
                     extend(_payloadTemplate,
                            [uri |-> ToStr(session.host)
                                       \o <<"objects/documents/", ToString(document_id)>>,
                             method |-> "GET"]),
                     [fn |-> "getDocument", document_id |-> document_id])]
  /\ console' = <<>>
  /\ response' = NoReply
  /\ UNCHANGED <<session, config>>

getDocument_then(o, result) ==
  /\ Awaits(o, "getDocument")
  /\ LET op == ops[o]
         h == _handleError("getDocument", result,
                JsString(<<"document_id = ", ToString(op.frame.document_id)>>))
     IN /\ console' = h.output
        /\ response' = Reply(o, result)
        /\ ops' = [ops EXCEPT ![o] = Settle(op, result, h, Get(result, "document"))]
  /\ UNCHANGED <<session, config>>

deleteDocument(o, document_id) ==
  /\ Free(o)
  /\ ops' = [ops EXCEPT ![o] =
               Issue(NewOp("deleteDocument", [document_id |-> document_id]),
                     extend(_payloadTemplate,
                            [uri |-> ToStr(session.host)
                                       \o <<"objects/documents/", ToString(document_id)>>,
                             method |-> "DELETE"]),
                     [fn |-> "deleteDocument", document_id |-> document_id])]
  /\ console' = <<>>
  /\ response' = NoReply
  /\ UNCHANGED <<session, config>>

deleteDocument_then(o, result) ==
  /\ Awaits(o, "deleteDocument")
  /\ LET op == ops[o]
         h == _handleError("deleteDocument", result,
                JsString(<<"document_id = ", ToString(op.frame.document_id)>>))
     IN /\ console' = h.output
        /\ response' = Reply(o, result)
        /\ ops' = [ops EXCEPT ![o] = Settle(op, result, h, JsUndefined)]
  /\ UNCHANGED <<session, config>>

----------------------------------------------------------------------------
(* verbose                                                 (lines 846-848) *)

\* show_messages == true, the loose equality of JavaScript
LooselyTrue(x) ==
  \/ (TypeOf(x) = "boolean" /\ x.v = TRUE)
  \/ (TypeOf(x) = "number" /\ x.v = 1)

verbose(show_messages) ==
  /\ config' = [config EXCEPT
                  !.verbose = IF LooselyTrue(show_messages) THEN TRUE ELSE FALSE]
  /\ console' = <<>>
  /\ response' = NoReply
  /\ UNCHANGED <<session, ops>>

----------------------------------------------------------------------------
(* The inputs of the callers and the data of the service. *)

Credentials(hosts) ==
  {[host |-> h, username |-> "u", password |-> "p"] : h \in hosts}

\* the host of Spec: no trailing slash, trailing whitespace
Hosts == {<<"h", " ">>}

\* a list of bare node ids, or a list of {node_id, document_id} objects
BareNodes == {JsNumber(n) : n \in NodeIds}
NodeObject(n, d) ==
  [t |-> "object", node_id |-> JsNumber(n), document_id |-> JsNumber(d)]
NodeObjects == {NodeObject(7, 101), NodeObject(8, 102)}
NodeLists == SeqUpTo(BareNodes, MaxLen) \cup SeqUpTo(NodeObjects, MaxLen)
DocumentLists == SeqUpTo({JsNumber(d) : d \in DocumentIds}, MaxLen)

Flags == {JsBoolean(TRUE), JsBoolean(FALSE), JsNumber(1), JsUndefined}
ObjectTypes == {"study__v"}
BinderData == {[name__v |-> "n", title__v |-> "t"]}
DocumentData == {[name__v |-> "n"]}
Files == {"file"}
Documents == {[id |-> 101, version_major |-> 0, version_minor |-> 1]}
RelationshipIds == {5}

Node(node_id, document_id) ==
  [properties |-> [id |-> node_id, document_id__v |-> document_id]]
BinderNodes == {<<>>, <<Node(7, 101), Node(8, 102)>>, <<Node(8, 102), Node(7, 101)>>}

NoData == {EmptyObject}
SessionData == {[sessionId |-> i] : i \in SessionIds}
ObjectsData == {[data |-> <<[id |-> "x", name__v |-> "X"]>>]}
BindersData ==
  {[documents |-> <<[document |-> [id |-> 42, binder__v |-> TRUE]],
                    [document |-> [id |-> 101, binder__v |-> FALSE]]>>]}
BinderData1 == {[binder |-> [nodes |-> n]] : n \in BinderNodes}
IdData(ids) == {[id |-> i] : i \in ids}
DocumentData1 == {[document |-> [id |-> 101]]}
RelationshipsData == {[relationships |-> <<[id |-> 5]>>]}

Init ==
  /\ session = [id |-> JsNull, host |-> JsNull]
  /\ config = [verbose |-> FALSE]
  /\ ops = [o \in Slots |-> Idle]
  /\ console = <<>>
  /\ response = Unobserved

\* the operations of the module, as the caller may invoke them
Invoke(o) ==
  \/ \E t \in ObjectTypes : getVaultObjects(o, t)
  \/ getProducts(o)
  \/ getCountries(o)
  \/ getBinders(o)
  \/ \E b \in BinderIds : getBinder(o, b)
  \/ \E b \in BinderIds : getBinderDocuments(o, b)
  \/ \E b \in BinderIds, d \in NodeLists : removeBinderDocuments(o, b, d)
  \/ \E b \in BinderIds, d \in DocumentLists : setBinderDocuments(o, b, d)
  \/ \E d \in BinderData : createBinder(o, d)
  \/ \E b \in BinderIds, d \in BinderData : updateBinder(o, b, d)
  \/ \E b \in BinderIds : deleteBinder(o, b)
  \/ \E d \in DocumentData : createDocument(o, d)
  \/ \E i \in DocumentIds, d \in DocumentData : updateDocument(o, i, d)
  \/ \E i \in DocumentIds, f \in Files : updateDocumentFile(o, i, f)
  \/ \E d \in Documents, i \in DocumentIds : createDocumentRelationship(o, d, i)
  \/ \E d \in Documents : getDocumentRelationships(o, d)
  \/ \E d \in Documents, r \in RelationshipIds : removeDocumentRelationship(o, d, r)
  \/ \E i \in DocumentIds : getDocument(o, i)
  \/ \E i \in DocumentIds : deleteDocument(o, i)
  \/ \E i \in DocumentIds : lockDocument(o, i)
  \/ \E i \in DocumentIds : unlockDocument(o, i)

\* the service answers the call in flight of slot o
Respond(o) ==
  \/ \E r \in Bodies(ObjectsData) : getVaultObjects_then(o, r)
  \/ \E r \in Bodies(BindersData) : getBinders_then(o, r)
  \/ \E r \in Bodies(BinderData1) : getBinder_then(o, r)
  \/ \E r \in Bodies(NoData) : removeBinderDocuments_then(o, r)
  \/ \E r \in Bodies(NoData) : setBinderDocuments_then(o, r)
  \/ \E r \in Bodies(IdData(BinderIds)) : createBinder_then(o, r)
  \/ \E r \in Bodies(NoData) : updateBinder_then(o, r)
  \/ \E r \in Bodies(NoData) : deleteBinder_then(o, r)
  \/ \E r \in Bodies(IdData(DocumentIds)) : createDocument_then(o, r)
  \/ \E r \in Bodies(IdData(DocumentIds)) : updateDocument_then(o, r)
  \/ \E r \in Bodies(NoData) : lockDocument_then(o, r)
  \/ \E r \in Bodies(NoData) : updateDocumentFile_then(o, r)
  \/ \E r \in Bodies(NoData) : unlockDocument_then(o, r)
  \/ \E r \in Bodies(NoData) : createDocumentRelationship_then(o, r)
  \/ \E r \in Bodies(RelationshipsData) : getDocumentRelationships_then(o, r)
  \/ \E r \in Bodies(NoData) : removeDocumentRelationship_then(o, r)
  \/ \E r \in Bodies(DocumentData1) : getDocument_then(o, r)
  \/ \E r \in Bodies(NoData) : deleteDocument_then(o, r)

\* Spec: the caller authenticates any number of times, before, while and
\* after it runs one operation on the vault
Next ==
  \/ \E c \in Credentials(Hosts) : authenticate(Login, c)
  \/ \E r \in Bodies(SessionData) : authenticate_then(Login, r)
  \/ (ops[Worker] = Idle /\ Invoke(Worker))
  \/ Respond(Worker)
  \/ \E f \in Flags : verbose(f)
  \/ \E o \in Slots : rp_rejected(o)

Spec == Init /\ [][Next]_vars

\* SpecAuth: the caller only authenticates, with any host string
AllHosts == SeqUpTo(HostChars, MaxHostLen)

NextAuth ==
  \/ \E c \in Credentials(AllHosts) : authenticate(Login, c)
  \/ \E r \in Bodies(SessionData) : authenticate_then(Login, r)
  \/ rp_rejected(Login)

SpecAuth == Init /\ [][NextAuth]_vars

\* SpecPair: the caller removes the same nodes from the same binder twice,
\* as a list of bare node ids by Worker and as a list of objects by Twin
AllNodeObjects == {NodeObject(n, d) : n \in NodeIds, d \in DocumentIds}

SameNodes(bare, objects) ==
  /\ Len(bare) = Len(objects)
  /\ \A i \in 1..Len(bare) : objects[i].node_id = bare[i]

NextPair ==
  \/ \E c \in Credentials(Hosts) :
       /\ ops[Worker] = Idle
       /\ authenticate(Login, c)
  \/ \E r \in Bodies(SessionData) :
       /\ ops[Worker] = Idle
       /\ authenticate_then(Login, r)
  \/ \E b \in BinderIds, d \in SeqUpTo(BareNodes, MaxPairLen) :
       /\ ops[Worker] = Idle
       /\ removeBinderDocuments(Worker, b, d)
  \/ \E b \in BinderIds, d \in SeqUpTo(AllNodeObjects, MaxPairLen) :
       /\ ops[Twin] = Idle
       /\ ops[Worker] # Idle
       /\ ops[Worker].args.binder_id = b
       /\ SameNodes(ops[Worker].args.documents, d)
       /\ removeBinderDocuments(Twin, b, d)
  \/ \E o \in {Worker, Twin}, r \in Bodies(NoData) : removeBinderDocuments_then(o, r)
  \/ \E o \in {Worker, Twin} : rp_rejected(o)

SpecPair == Init /\ [][NextPair]_vars

\* SpecReply: as Spec, with the responses observed and short lists
InitReply ==
  /\ session = [id |-> JsNull, host |-> JsNull]
  /\ config = [verbose |-> FALSE]
  /\ ops = [o \in Slots |-> Idle]
  /\ console = <<>>
  /\ response = JsUndefined

ListLength(op) ==
  IF op.method = "setBinderDocuments" THEN Len(op.args.document_ids)
  ELSE IF op.method = "removeBinderDocuments" THEN Len(op.args.documents)
  ELSE 0

NextReply ==
  \/ \E c \in Credentials(Hosts) : authenticate(Login, c)
  \/ \E r \in Bodies(SessionData) : authenticate_then(Login, r)
  \/ /\ ops[Worker] = Idle
     /\ Invoke(Worker)
     /\ ListLength(ops'[Worker]) <= MaxReplyLen
  \/ Respond(Worker)
  \/ \E f \in Flags : verbose(f)
  \/ \E o \in Slots : rp_rejected(o)

SpecReply == InitReply /\ [][NextReply]_vars

\* SpecPath: two callers ask for the relationships of documents whose ids
\* and version numbers have one and two digits, while the session and the
\* verbose flag change
PathNumbers == {1, 11}
PathDocuments ==
  {[id |-> i, version_major |-> a, version_minor |-> b] :
     i \in PathNumbers, a \in PathNumbers, b \in PathNumbers}

\* the bodies without a message and without an error list
PlainBodies(data) ==
  {b \in Bodies(data) : ~Has(b, "responseMessage") /\ ~Has(b, "errors")}

NextPath ==
  \/ \E c \in Credentials(Hosts) : authenticate(Login, c)
  \/ \E r \in PlainBodies({[sessionId |-> JsString(<<"s1">>)]}) :
       authenticate_then(Login, r)
  \/ \E o \in {Worker, Twin}, d \in PathDocuments : getDocumentRelationships(o, d)
  \/ \E o \in {Worker, Twin}, r \in PlainBodies(RelationshipsData) :
       getDocumentRelationships_then(o, r)
  \/ \E f \in Flags : verbose(f)

SpecPath == Init /\ [][NextPath]_vars

\* SpecSwitch: the caller authenticates with one of two hosts any number of
\* times, before, while and after it runs one sequencer; the responses are
\* observed
SwitchHosts == {<<"h">>, <<"h", "h">>}

NextSwitch ==
  \/ \E c \in Credentials(SwitchHosts) : authenticate(Login, c)
  \/ \E r \in PlainBodies(SessionData) : authenticate_then(Login, r)
  \/ \E b \in BinderIds, d \in SeqUpTo({JsNumber(7)}, MaxLen) :
       /\ ops[Worker] = Idle
       /\ removeBinderDocuments(Worker, b, d)
  \/ \E b \in BinderIds, d \in SeqUpTo({JsNumber(101)}, MaxLen) :
       /\ ops[Worker] = Idle
       /\ setBinderDocuments(Worker, b, d)
  \/ \E r \in PlainBodies(NoData) : removeBinderDocuments_then(Worker, r)
  \/ \E r \in PlainBodies(NoData) : setBinderDocuments_then(Worker, r)
  \/ \E o \in Slots : rp_rejected(o)

SpecSwitch == InitReply /\ [][NextSwitch]_vars

\* SpecLive: the caller runs one sequencer, and the service answers every
\* call that was sent: with a response, or by failing the request
Answer(o) ==
  \/ \E r \in Bodies(NoData) : removeBinderDocuments_then(o, r)
  \/ \E r \in Bodies(NoData) : setBinderDocuments_then(o, r)
  \/ rp_rejected(o)

NextLive ==
  \/ \E b \in BinderIds, d \in NodeLists :
       /\ ops[Worker] = Idle
       /\ removeBinderDocuments(Worker, b, d)
  \/ \E b \in BinderIds, d \in DocumentLists :
       /\ ops[Worker] = Idle
       /\ setBinderDocuments(Worker, b, d)
  \/ \E r \in Bodies(NoData) : removeBinderDocuments_then(Worker, r)
  \/ \E r \in Bodies(NoData) : setBinderDocuments_then(Worker, r)
  \/ rp_rejected(Worker)

SpecLive == Init /\ [][NextLive]_vars /\ WF_vars(Answer(Worker))

----------------------------------------------------------------------------
(* Properties. *)

IsOp(o, method) == ops[o] # Idle /\ ops[o].method = method

EndsWith(s, suffix) ==
  /\ Len(s) >= Len(suffix)
  /\ SubSeq(s, Len(s) - Len(suffix) + 1, Len(s)) = suffix

Failed(call) == call.answer \in {"failure", "error"}

\* the calls of op the service answered with a success, in their order
Applied(op) == SelectSeq(op.calls, LAMBDA c : c.answer = "success")

\* the rejection names document id d: in the message of the Error that
\* _handleError threw, or in the options of the error rp rejected with
IdentifiesDocument(reason, d) ==
  IF reason.name = "Error"
  THEN Contains(reason.message, <<", document_id = ">> \o ToStr(d))
  ELSE reason.options.form.document_id__v = d

\* C1: setBinderDocuments(binder_id, D) sends one POST per element of D, the
\* j-th with document_id__v = D[j] and order__v = j, each only after the
\* one before was answered with a success, and its promise is fulfilled only
\* when all Len(D) calls were sent and succeeded.
C1_SetBinderDocumentsInOrder ==
  \A o \in Slots :
    IsOp(o, "setBinderDocuments") =>
      LET op == ops[o]
          D == op.args.document_ids
      IN /\ Len(op.calls) <= Len(D)
         /\ \A j \in 1..Len(op.calls) :
              LET p == op.calls[j].payload
              IN /\ p.method = "POST"
                 /\ EndsWith(p.uri, <<"objects/binders/",
                                      ToString(op.args.binder_id), "/documents">>)
                 /\ p.form = [document_id__v |-> D[j], order__v |-> JsNumber(j)]
                 /\ (j > 1 => op.calls[j - 1].answer = "success")
         /\ (op.state = "fulfilled" =>
               /\ Len(op.calls) = Len(D)
               /\ \A j \in 1..Len(D) : op.calls[j].answer = "success")

C1_Witness ==
  \E o \in Slots :
    /\ IsOp(o, "setBinderDocuments")
    /\ ops[o].state = "fulfilled"
    /\ Len(ops[o].args.document_ids) >= 3
    /\ ops[o].args.document_ids[1] # ops[o].args.document_ids[2]

\* C2: when the k-th call of setBinderDocuments fails, no later call is
\* sent, the promise is rejected and the rejection names D[k].
C2_SetBinderDocumentsStopsAtFailure ==
  \A o \in Slots :
    IsOp(o, "setBinderDocuments") =>
      LET op == ops[o]
          D == op.args.document_ids
      IN \A k \in 1..Len(op.calls) :
           Failed(op.calls[k]) =>
             /\ k = Len(op.calls)
             /\ k <= Len(D)
             /\ op.state = "rejected"
             /\ IdentifiesDocument(op.value, D[k])

C2_Witness ==
  \E o \in Slots :
    /\ IsOp(o, "setBinderDocuments")
    /\ ops[o].state = "rejected"
    /\ ops[o].value.name = "Error"
    /\ Len(ops[o].calls) = 2
    /\ Len(ops[o].args.document_ids) = 3

\* C3: an invocation has at most one call in flight, and it sends a call
\* only when every call it sent before has been answered.
C3_OneCallInFlight ==
  \A o \in Slots :
    ops[o] # Idle =>
      /\ Cardinality(InFlight(ops[o])) <= 1
      /\ \A j \in 1..(Len(ops[o].calls) - 1) : ops[o].calls[j].answer # "none"

C3_Witness ==
  \E o \in Slots :
    /\ IsOp(o, "updateDocumentFile")
    /\ Len(ops[o].calls) = 3
    /\ InFlight(ops[o]) = {3}

\* the answers an invocation has received, in the order of its calls
Received(op) ==
  [j \in 1..Len(SelectSeq(op.calls, LAMBDA c : c.answer # "none")) |->
     op.calls[j].answer]

Min(a, b) == IF a <= b THEN a ELSE b

\* C4: removeBinderDocuments with a list of bare node ids (Worker) and with
\* a list of {node_id, document_id} objects of the same node ids (Twin)
\* send the same calls in the same order, and after the same answers have
\* sent equally many and have settled alike.
C4_SameDeletesForBothForms ==
  (/\ IsOp(Worker, "removeBinderDocuments")
   /\ IsOp(Twin, "removeBinderDocuments")) =>
     LET a == ops[Worker]
         b == ops[Twin]
     IN /\ \A j \in 1..Min(Len(a.calls), Len(b.calls)) :
             a.calls[j].payload = b.calls[j].payload
        /\ (Received(a) = Received(b) =>
              /\ Len(a.calls) = Len(b.calls)
              /\ a.state = b.state)

C4_Witness ==
  /\ IsOp(Worker, "removeBinderDocuments")
  /\ IsOp(Twin, "removeBinderDocuments")
  /\ ops[Worker].state = "fulfilled"
  /\ ops[Twin].state = "fulfilled"
  /\ Len(ops[Twin].calls) >= 2
  /\ TypeOf(ops[Worker].args.documents[1]) = "number"
  /\ TypeOf(ops[Twin].args.documents[1]) = "object"
  /\ ops[Twin].args.documents[1].document_id # ops[Twin].args.documents[2].document_id

\* the node id the caller means by an element of the list
MeantNode(element) == IF element.t = "object" THEN element.node_id ELSE element

\* C5: removeBinderDocuments sends one DELETE per element, for the node ids
\* in the order of the list, each only after the one before was answered
\* with a success; a failed DELETE is the last call and rejects the promise;
\* the promise is fulfilled only when all DELETEs were sent and succeeded.
C5_RemoveBinderDocumentsInOrder ==
  \A o \in Slots :
    IsOp(o, "removeBinderDocuments") =>
      LET op == ops[o]
          N == op.args.documents
      IN /\ Len(op.calls) <= Len(N)
         /\ \A j \in 1..Len(op.calls) :
              LET p == op.calls[j].payload
              IN /\ p.method = "DELETE"
                 /\ EndsWith(p.uri, <<"objects/binders/",
                                      ToString(op.args.binder_id), "/documents/",
                                      ToString(MeantNode(N[j]).v)>>)
                 /\ (j > 1 => op.calls[j - 1].answer = "success")
                 /\ (Failed(op.calls[j]) =>
                       j = Len(op.calls) /\ op.state = "rejected")
         /\ (op.state = "fulfilled" =>
               /\ Len(op.calls) = Len(N)
               /\ \A j \in 1..Len(N) : op.calls[j].answer = "success")

C5_Witness ==
  \E o \in Slots :
    /\ IsOp(o, "removeBinderDocuments")
    /\ ops[o].state = "rejected"
    /\ Len(ops[o].calls) = 2
    /\ Len(ops[o].args.documents) = 3
    /\ TypeOf(ops[o].args.documents[1]) = "object"

IsSequencer(o) ==
  IsOp(o, "setBinderDocuments") \/ IsOp(o, "removeBinderDocuments")

ListOf(op) ==
  IF op.method = "setBinderDocuments" THEN op.args.document_ids
  ELSE op.args.documents

\* C6: setBinderDocuments and removeBinderDocuments with an empty list
\* return a fulfilled promise in the step of the invocation, send no call
\* (so build no payload from the session) and leave the session as it is.
C6_EmptyListIsNoOp ==
  [][\A o \in Slots :
       (/\ ops'[o] # ops[o]
        /\ ops'[o] # Idle
        /\ ops'[o].method \in {"setBinderDocuments", "removeBinderDocuments"}
        /\ ListOf(ops'[o]) = <<>>) =>
          /\ ops'[o].state = "fulfilled"
          /\ ops'[o].calls = <<>>
          /\ session' = session]_vars

C6_Witness ==
  /\ IsOp(Worker, "removeBinderDocuments")
  /\ ops[Worker].args.documents = <<>>
  /\ ops[Worker].state = "fulfilled"
  /\ ops[Worker].calls = <<>>
  /\ session.id # JsNull

\* C7: when call k of a sequencer fails, the promise is rejected with the
\* error, the calls the service has applied are exactly the k-1 calls
\* before it, and the invocation sends no call that undoes them: all its
\* calls are the POSTs (set) or the DELETEs (remove) of the list.
C7_NoRollback ==
  \A o \in Slots :
    (/\ IsSequencer(o)
     /\ \E k \in 1..Len(ops[o].calls) : Failed(ops[o].calls[k])) =>
       LET op == ops[o]
           k == Len(op.calls)
       IN /\ op.state = "rejected"
          /\ op.value.name \in {"Error", "RequestError"}
          /\ Applied(op) = SubSeq(op.calls, 1, k - 1)
          /\ \A j \in 1..k :
               op.calls[j].payload.method =
                 (IF op.method = "setBinderDocuments" THEN "POST" ELSE "DELETE")

C7_Witness ==
  \E o \in Slots :
    /\ IsOp(o, "setBinderDocuments")
    /\ ops[o].state = "rejected"
    /\ Len(ops[o].calls) = 3
    /\ Len(Applied(ops[o])) = 2

\* the host the documentation of authenticate promises for an input: the
\* input without its trailing whitespace, with a slash added when it does
\* not end in one
IsNormalOf(host, input) ==
  \E n \in 0..Len(input) :
    /\ \A i \in (n + 1)..Len(input) : input[i] \in Whitespace
    /\ (n > 0 => input[n] \notin Whitespace)
    /\ host = (IF n > 0 /\ input[n] = "/"
               THEN SubSeq(input, 1, n)
               ELSE SubSeq(input, 1, n) \o <<"/">>)

TrailingSlashes(s) ==
  Cardinality({i \in 1..Len(s) : \A j \in i..Len(s) : s[j] = "/"})

C9_HostEndsInSlash ==
  \/ session.host = JsNull
  \/ /\ TypeOf(session.host) = "string"
     /\ Len(session.host.v) > 0
     /\ session.host.v[Len(session.host.v)] = "/"

C9_Witness ==
  /\ IsOp(Login, "authenticate")
  /\ ops[Login].state = "fulfilled"
  /\ ops[Login].args.credentials.host = <<"h", "h", " ">>
  /\ session.host = JsString(<<"h", "h", "/">>)

\* C10: the session changes only in the step in which an authenticate
\* receives a successful answer; every step of another operation, its
\* invocation, its callbacks and its failure, and every call of verbose
\* leaves the session as it is.
C10_SessionWrittenByAuthenticateOnly ==
  [][/\ (session' # session =>
           \E o \in Slots :
             /\ IsOp(o, "authenticate")
             /\ Pending(o)
             /\ ops'[o] # Idle
             /\ ops'[o].method = "authenticate"
             /\ ops'[o].state = "fulfilled")
     /\ (\E o \in Slots :
           /\ ops'[o] # ops[o]
           /\ ops'[o] # Idle
           /\ ops'[o].method # "authenticate") => session' = session
     /\ (config' # config => session' = session)]_vars

C10_Witness ==
  /\ session.id # JsNull
  /\ IsOp(Worker, "deleteBinder")
  /\ ops[Worker].state = "fulfilled"

\* the step just taken handed a response body to a callback of slot o
Replied(o) ==
  /\ response \notin {Unobserved, JsUndefined}
  /\ response.to = o

\* an Error thrown by _handleError for method: "Error in vault.<method>(...): ..."
NamesMethod(reason, method) ==
  /\ reason.name = "Error"
  /\ Len(reason.message) >= 2
  /\ reason.message[1] = "Error in vault."
  /\ reason.message[2] = method

\* C11: a response to authenticate that is not a success rejects the promise
\* with an Error naming "authenticate" and leaves session.id and
\* session.host as they were, null when no authenticate succeeded before;
\* the session changes only in the step that hands authenticate a success,
\* to the host of the credentials and the sessionId of that response.
C11_FailedAuthenticateStoresNothing ==
  [][/\ ((Replied(Login)' /\ ~Succeeds(response'.body)) =>
           /\ session' = session
           /\ ops'[Login].state = "rejected"
           /\ NamesMethod(ops'[Login].value, "authenticate"))
     /\ (session' # session =>
           /\ Replied(Login)'
           /\ Succeeds(response'.body)
           /\ session'.id = response'.body.sessionId
           /\ ops'[Login].state = "fulfilled")]_vars

C11_Witness ==
  /\ Replied(Login)
  /\ ~Has(response.body, "responseStatus")
  /\ ops[Login].state = "rejected"
  /\ session = [id |-> JsNull, host |-> JsNull]

\* call j of slot o was sent in the step just taken
Issued(o, j) ==
  /\ ops'[o] # Idle
  /\ j \in InFlight(ops'[o])
  /\ (ops[o] = Idle \/ ~Pending(o) \/ j > Len(ops[o].calls))

\* C12: every call an operation other than authenticate sends carries the
\* header Authorization with the session.id of the moment the call is sent,
\* in every step of the operations of several steps; the call of
\* authenticate carries no Authorization header.
C12_AuthorizationIsCurrent ==
  [][\A o \in Slots :
       \A j \in 1..(IF ops'[o] = Idle THEN 0 ELSE Len(ops'[o].calls)) :
       Issued(o, j) =>
         LET headers == ops'[o].calls[j].payload.headers
         IN IF ops'[o].method = "authenticate"
            THEN ~Has(headers, "Authorization")
            ELSE /\ Has(headers, "Authorization")
                 /\ headers.Authorization = session'.id]_vars

\* the body says in so many words that the call succeeded
ExplicitSuccess(body) ==
  "responseStatus" \in DOMAIN body /\ body.responseStatus = "SUCCESS"

\* C13: a response body whose responseStatus is absent or is not "SUCCESS"
\* rejects the promise of the operation with the Error of the classifier,
\* whatever else the body carries, and a fulfilled promise has had a
\* success for every one of its calls.
C13_NoSuccessByDefault ==
  \A o \in Slots :
    /\ (Replied(o) /\ ~ExplicitSuccess(response.body)) =>
         /\ ops[o].state = "rejected"
         /\ ops[o].value.name = "Error"
         /\ ops[o].calls[Len(ops[o].calls)].answer = "failure"
    /\ (ops[o] # Idle /\ ops[o].state = "fulfilled") =>
         \A j \in 1..Len(ops[o].calls) : ops[o].calls[j].answer = "success"

C13_Witness ==
  /\ IsOp(Worker, "getVaultObjects")
  /\ Replied(Worker)
  /\ "responseStatus" \notin DOMAIN response.body
  /\ "data" \in DOMAIN response.body
  /\ ops[Worker].state = "rejected"

\* the function of the library that sends call k of an invocation of method
IssuerOf(method, k) ==
  CASE method \in {"getProducts", "getCountries"} -> "getVaultObjects"
    [] method = "getBinderDocuments" -> "getBinder"
    [] method = "createBinder" /\ k = 2 -> "getBinder"
    [] method = "updateDocumentFile" /\ k = 1 -> "lockDocument"
    [] method = "updateDocumentFile" /\ k = 3 -> "unlockDocument"
    [] OTHER -> method

\* the step just taken answered a call of slot o with a failure and message
RepliedFailureWithMessage(o) ==
  /\ Replied(o)
  /\ "responseStatus" \in DOMAIN response.body
  /\ response.body.responseStatus = "FAILURE"
  /\ "responseMessage" \in DOMAIN response.body

\* C14 (as amended): a response {responseStatus: "FAILURE", responseMessage:
\* m} to a call of an operation rejects its promise with an Error whose
\* message ends with m and names the function of the library that sent the
\* call: the operation the caller invoked, but getVaultObjects for
\* getProducts and getCountries, getBinder for getBinderDocuments and for
\* the second call of createBinder, lockDocument and unlockDocument for the
\* first and the third call of updateDocumentFile.
C14_MessageAndIssuer ==
  \A o \in Slots :
    RepliedFailureWithMessage(o) =>
      LET op == ops[o]
      IN /\ op.state = "rejected"
         /\ NamesMethod(op.value, IssuerOf(op.method, Len(op.calls)))
         /\ op.value.message[Len(op.value.message)] = response.body.responseMessage

C14_Witness ==
  /\ IsOp(Worker, "createBinder")
  /\ RepliedFailureWithMessage(Worker)
  /\ Len(ops[Worker].calls) = 2
  /\ ops[Worker].state = "rejected"
  /\ NamesMethod(ops[Worker].value, "getBinder")

\* C14 as stated: the Error names the operation the caller invoked.
C14_MessageAndInvokedOperation ==
  \A o \in Slots :
    RepliedFailureWithMessage(o) =>
      /\ ops[o].state = "rejected"
      /\ NamesMethod(ops[o].value, ops[o].method)
      /\ ops[o].value.message[Len(ops[o].value.message)]
           = response.body.responseMessage

\* the operations that take no argument
TakesNoArgument(method) == method \in {"getProducts", "getCountries", "getBinders"}

\* the message of an Error of the library carries an argument description:
\* "Error in vault.<method>( <args> ): ..."
DescribesArguments(reason) ==
  /\ Len(reason.message) >= 6
  /\ reason.message[3] = "("
  /\ reason.message[4] = " "

\* C15: every rejection of an operation on the vault, whatever made its call
\* fail, carries a message that names the method (the operation invoked or
\* the function that sent the call) and describes the arguments of the
\* failing call.
C15_EveryRejectionIdentifiesCall ==
  \A o \in Slots :
    (/\ ops[o] # Idle
     /\ ops[o].method # "authenticate"
     /\ ops[o].state = "rejected") =>
       LET op == ops[o]
       IN /\ \/ NamesMethod(op.value, op.method)
             \/ NamesMethod(op.value, IssuerOf(op.method, Len(op.calls)))
          /\ (TakesNoArgument(op.method) \/ DescribesArguments(op.value))

\* the step just taken answered a call of slot o with a failure that carries
\* a list of errors and no message
RepliedErrorList(o) ==
  /\ Replied(o)
  /\ ~ExplicitSuccess(response.body)
  /\ "errors" \in DOMAIN response.body
  /\ "responseMessage" \notin DOMAIN response.body

\* C16: a failure that carries a list of errors and no message writes the
\* whole list to the console, with verbose on and with verbose off, and
\* rejects the promise with the Error "... Aborting".
C16_ErrorListAlwaysLogged ==
  \A o \in Slots :
    RepliedErrorList(o) =>
      /\ \E i \in 1..Len(console) : Contains(console[i], response.body.errors)
      /\ ops[o].state = "rejected"
      /\ ops[o].value.name = "Error"
      /\ ops[o].value.message[Len(ops[o].value.message)] = "Aborting"

\* call p is the lock (POST) or the unlock (DELETE) of document id
IsLockCall(p, method, id) ==
  /\ p.method = method
  /\ EndsWith(p.uri, <<"objects/documents/", ToString(id), "/lock">>)

\* call p is the update of document id with file
IsFileUpdate(p, id, file) ==
  /\ p.method = "POST"
  /\ EndsWith(p.uri, <<"objects/documents/", ToString(id)>>)
  /\ "formData" \in DOMAIN p
  /\ p.formData = [file |-> file]

\* C17: updateDocumentFile(id, file) sends the lock, then the update of the
\* file, then the unlock; the update is sent in the step in which the lock
\* was answered with a success and not before, the unlock in the step in
\* which the update was answered with a success and not before, and the
\* promise is fulfilled only when the unlock was answered with a success.
C17_LockUpdateUnlock ==
  \A o \in Slots :
    IsOp(o, "updateDocumentFile") =>
      LET op == ops[o]
          id == op.args.document_id
          n == Len(op.calls)
      IN /\ n \in 1..3
         /\ IsLockCall(op.calls[1].payload, "POST", id)
         /\ (n >= 2 <=> op.calls[1].answer = "success")
         /\ (n >= 2 => IsFileUpdate(op.calls[2].payload, id, op.args.document_file))
         /\ (n = 3 <=> (n >= 2 /\ op.calls[2].answer = "success"))
         /\ (n = 3 => IsLockCall(op.calls[3].payload, "DELETE", id))
         /\ (op.state = "fulfilled" <=> (n = 3 /\ op.calls[3].answer = "success"))

C17_Witness ==
  /\ IsOp(Worker, "updateDocumentFile")
  /\ ops[Worker].state = "fulfilled"
  /\ Len(ops[Worker].calls) = 3
  /\ ops[Worker].calls[3].payload.method = "DELETE"
  /\ ops[Worker].calls[3].answer = "success"

\* a call to the lock of a document (the request is addressed by uri or url)
TouchesLock(call) ==
  LET p == call.payload
  IN EndsWith(IF "uri" \in DOMAIN p THEN p.uri ELSE p.url, <<"/lock">>)

\* the lock of the document as the answers of the service to the calls of
\* op leave it: locked when more locks than unlocks were applied
LeftLocked(op) ==
  Len(SelectSeq(Applied(op), LAMBDA c : c.payload.method = "POST"
                                         /\ TouchesLock(c)))
    > Len(SelectSeq(Applied(op), LAMBDA c : c.payload.method = "DELETE"
                                             /\ TouchesLock(c)))

\* the rejection is the error of call k: the Error of _handleError naming
\* the step, or the error of rp for the request of call k
IsErrorOfStep(op, k, step) ==
  IF op.calls[k].answer = "failure"
  THEN NamesMethod(op.value, step)
  ELSE op.value.name = "RequestError" /\ op.value.options = op.calls[k].payload

\* C18: when a call of updateDocumentFile fails it is the last call of the
\* invocation and the promise is rejected with the error of that step:
\* lockDocument for the lock, after which neither update nor unlock is sent
\* and no lock was applied; updateDocumentFile for the update, after which
\* no unlock is sent and the document is left locked; unlockDocument for
\* the unlock.
C18_FailedStepHalts ==
  \A o \in Slots :
    IsOp(o, "updateDocumentFile") =>
      LET op == ops[o]
          n == Len(op.calls)
      IN \A k \in 1..n :
           Failed(op.calls[k]) =>
             /\ k = n
             /\ op.state = "rejected"
             /\ IsErrorOfStep(op, k, CASE k = 1 -> "lockDocument"
                                       [] k = 2 -> "updateDocumentFile"
                                       [] OTHER -> "unlockDocument")
             /\ (op.calls[k].answer = "failure" /\ k = 1 => ~LeftLocked(op))
             /\ (k = 2 => LeftLocked(op))

C18_Witness ==
  /\ IsOp(Worker, "updateDocumentFile")
  /\ ops[Worker].state = "rejected"
  /\ Len(ops[Worker].calls) = 2
  /\ ops[Worker].calls[2].answer = "failure"
  /\ LeftLocked(ops[Worker])
  /\ NamesMethod(ops[Worker].value, "updateDocumentFile")

Settled(o) == ops[o] # Idle /\ ops[o].state # "pending"

ProtocolSteps(op) ==
  CASE op.method = "setBinderDocuments" -> Len(op.args.document_ids)
    [] op.method = "removeBinderDocuments" -> Len(op.args.documents)
    [] op.method = "updateDocumentFile" -> 3
    [] op.method = "createBinder" -> 2
    [] OTHER -> 1

\* C20: no operation sends a call again: an invocation never has more calls
\* than its protocol has steps, and a call that failed is the last call of
\* its invocation, whose promise is rejected with that failure.
C20_NoRetry ==
  \A o \in Slots :
    ops[o] # Idle =>
      LET op == ops[o]
      IN /\ Len(op.calls) <= ProtocolSteps(op)
         /\ \A k \in 1..Len(op.calls) :
              Failed(op.calls[k]) =>
                /\ k = Len(op.calls)
                /\ op.state = "rejected"
                /\ op.value.name \in {"Error", "RequestError"}

C20_Witness ==
  /\ IsOp(Worker, "createBinder")
  /\ Len(ops[Worker].calls) = 2
  /\ ops[Worker].calls[2].answer = "error"
  /\ ops[Worker].state = "rejected"

\* the characters of the decimal numeral of n, as String(n) of JavaScript
DigitCharacters == <<"0", "1", "2", "3", "4", "5", "6", "7", "8", "9">>
RECURSIVE Digits(_)
Digits(n) ==
  IF n < 10 THEN <<DigitCharacters[n + 1]>>
  ELSE Digits(n \div 10) \o <<DigitCharacters[(n % 10) + 1]>>

\* the characters of the words of a relationships path
Letters ==
  [objects |-> <<"o", "b", "j", "e", "c", "t", "s">>,
   documents |-> <<"d", "o", "c", "u", "m", "e", "n", "t", "s">>,
   versions |-> <<"v", "e", "r", "s", "i", "o", "n", "s">>,
   relationships |-> <<"r", "e", "l", "a", "t", "i", "o", "n", "s", "h", "i", "p", "s">>]

\* the characters of one token of a path: of a word, of the separator, or
\* of the numeral of a number
CharactersOf(token) ==
  IF token \in DOMAIN Letters THEN Letters[token]
  ELSE IF token = "/" THEN <<"/">>
  ELSE Digits(CHOOSE n \in 0..111 : ToString(n) = token)

\* the string a sequence of tokens is: its characters one after the other
RECURSIVE Spell(_)
Spell(tokens) ==
  IF tokens = <<>> THEN <<>>
  ELSE CharactersOf(Head(tokens)) \o Spell(Tail(tokens))

\* the path in the url of a getDocumentRelationships request: what follows
\* the host of the session
PathOf(op) ==
  LET url == op.calls[1].payload.url
      host == IF Len(url) > 0 /\ url[1] = "null" THEN 1 ELSE 2
  IN Spell(SubSeq(url, host + 1, Len(url)))

Triple(document) ==
  <<document.id, document.version_major, document.version_minor>>

\* C21: the path _getRelationshipsPath returns is, character by character,
\* "objects/documents/<id>/versions/<version_major>/<version_minor>/
\* relationships"; it is the same for the same triple whatever the session
\* and the verbose flag are when it is computed, and two documents whose
\* triples differ get different paths.
C21_PathIsInjective ==
  \A a \in {Worker, Twin} :
    IsOp(a, "getDocumentRelationships") =>
      LET d == ops[a].args.document
      IN /\ PathOf(ops[a]) =
              Letters.objects \o <<"/">> \o Letters.documents \o <<"/">>
                \o Digits(d.id) \o <<"/">> \o Letters.versions \o <<"/">>
                \o Digits(d.version_major) \o <<"/">> \o Digits(d.version_minor)
                \o <<"/">> \o Letters.relationships
         /\ \A b \in {Worker, Twin} :
              IsOp(b, "getDocumentRelationships") =>
                (PathOf(ops[a]) = PathOf(ops[b])
                   <=> Triple(d) = Triple(ops[b].args.document))

C21_Witness ==
  /\ IsOp(Worker, "getDocumentRelationships")
  /\ IsOp(Twin, "getDocumentRelationships")
  /\ Triple(ops[Worker].args.document) = <<1, 1, 11>>
  /\ Triple(ops[Twin].args.document) = <<1, 11, 1>>
  /\ ops[Worker].calls[1].payload.headers # ops[Twin].calls[1].payload.headers
  /\ PathOf(ops[Worker]) # PathOf(ops[Twin])

\* C22: getBinderDocuments sends one call. When the response is a success
\* that carries the binder, the promise is fulfilled with a list as long as
\* the binder's node list whose i-th element is the id and the document id
\* of the i-th node, in the order of the service; when the fetch fails, the
\* promise is rejected and no list is returned.
C22_GetBinderDocuments ==
  \A o \in Slots :
    IsOp(o, "getBinderDocuments") =>
      LET op == ops[o]
      IN /\ Len(op.calls) = 1
         /\ op.state = "fulfilled" => op.calls[1].answer = "success"
         /\ op.calls[1].answer \in {"failure", "error"} => op.state = "rejected"
         /\ op.state = "rejected" => "name" \in DOMAIN op.value
         /\ Replied(o) =>
              IF Succeeds(response.body) /\ Has(response.body, "binder")
              THEN LET nodes == response.body.binder.nodes
                   IN /\ op.state = "fulfilled"
                      /\ DOMAIN op.value = 1..Len(nodes)
                      /\ \A i \in 1..Len(nodes) :
                           op.value[i] =
                             [node_id |-> nodes[i].properties.id,
                              document_id |-> nodes[i].properties.document_id__v]
              ELSE op.state = "rejected"

C22_Witness ==
  /\ IsOp(Worker, "getBinderDocuments")
  /\ ops[Worker].state = "fulfilled"
  /\ Replied(Worker)
  /\ Len(response.body.binder.nodes) = 2
  /\ ops[Worker].value[1].node_id = 8
  /\ ops[Worker].value[2].document_id = 101

\* a step that leaves the call in flight of o unanswered
LeavesUnanswered(o) ==
  /\ ops[o] # Idle
  /\ InFlight(ops[o]) # {}
  /\ Len(ops'[o].calls) >= Oldest(ops[o])
  /\ ops'[o].calls[Oldest(ops[o])].answer = "none"

\* C23: a sequencer never sends more calls than its list has elements;
\* while a call it sent is not answered, it stays as it is: pending, with
\* no further call sent (there is no timeout); and when the service answers
\* every call that was sent, it eventually settles.
C23_SequencerTerminates ==
  /\ [](IsSequencer(Worker) =>
          /\ Len(ops[Worker].calls) <= Len(ListOf(ops[Worker]))
          /\ Pending(Worker) => InFlight(ops[Worker]) # {})
  /\ [][LeavesUnanswered(Worker) =>
          /\ ops'[Worker] = ops[Worker]
          /\ Pending(Worker)]_vars
  /\ (IsSequencer(Worker) ~> Settled(Worker))

C23_Witness ==
  /\ IsOp(Worker, "removeBinderDocuments")
  /\ Settled(Worker)
  /\ Len(ListOf(ops[Worker])) = MaxLen
  /\ Len(ops[Worker].calls) = MaxLen
  /\ ops[Worker].state = "fulfilled"

\* the request was built from session s: its uri is the host of s followed
\* by the path of the binder's documents, its Authorization is the id of s
BuiltFrom(payload, s) ==
  LET host == ToStr(s.host)
  IN /\ Len(payload.uri) > Len(host)
     /\ SubSeq(payload.uri, 1, Len(host)) = host
     /\ payload.uri[Len(host) + 1] = "objects/binders/"
     /\ payload.headers = [Authorization |-> s.id]

\* C24: every request of a sequencer is built from the Session as it is in
\* the step that sends it, host and token from the same Session: after an
\* authenticate that completed between two calls, the calls that follow
\* target the new host and carry the new id.
C24_RequestBuiltFromCurrentSession ==
  [][\A j \in 1..(IF ops'[Worker] = Idle THEN 0 ELSE Len(ops'[Worker].calls)) :
       (IsSequencer(Worker)' /\ Issued(Worker, j)) =>
          /\ session' = session
          /\ BuiltFrom(ops'[Worker].calls[j].payload, session)]_vars

C24_Witness ==
  /\ IsSequencer(Worker)
  /\ Len(ops[Worker].calls) = 3
  /\ ops[Worker].calls[1].payload.headers.Authorization = JsString(<<"s1">>)
  /\ ops[Worker].calls[1].payload.uri[2] = "/"
  /\ ops[Worker].calls[2].payload.headers.Authorization = JsString(<<"s2">>)
  /\ ops[Worker].calls[2].payload.uri[2] = "h"
  /\ ops[Worker].calls[3].payload.headers.Authorization = JsString(<<"s2">>)
  /\ ops[Worker].calls[3].payload.uri[2] = "h"
  /\ session = [host |-> JsString(<<"h", "h", "/">>), id |-> JsString(<<"s2">>)]

\* the authenticate of Login settles in the step taken, as state
AuthenticateSettles(state) ==
  /\ IsOp(Login, "authenticate")
  /\ Pending(Login)
  /\ ops'[Login].state = state

\* the host the call of an authenticate was sent to: its uri without "auth"
HostCalled(op) ==
  LET uri == op.calls[1].payload.uri
  IN JsString(SubSeq(uri, 1, Len(uri) - 1))

\* C25: an authenticate that fails leaves the Session as it was, with the
\* host and the id of an earlier success; an authenticate that succeeds
\* replaces the host and the id in the one step of its callback, in which
\* no other operation acts, and the Session changes in no other step: no
\* state pairs the host of one authentication with the id of another.
C25_SessionReplacedAtOnce ==
  [][/\ AuthenticateSettles("rejected") => session' = session
     /\ AuthenticateSettles("fulfilled") =>
          /\ Replied(Login)'
          /\ session' = [host |-> HostCalled(ops[Login]),
                         id |-> response'.body.sessionId]
          /\ ops'[Worker] = ops[Worker]
     /\ session' # session => AuthenticateSettles("fulfilled")]_vars

C25_Witness ==
  /\ IsOp(Login, "authenticate")
  /\ ops[Login].state = "rejected"
  /\ Replied(Login)
  /\ HostCalled(ops[Login]) = JsString(<<"h", "h", "/">>)
  /\ session = [host |-> JsString(<<"h", "/">>), id |-> JsString(<<"s1">>)]
  /\ IsSequencer(Worker)
  /\ Len(ops[Worker].calls) = 2
  /\ BuiltFrom(ops[Worker].calls[1].payload,
               [host |-> JsString(<<"h", "h", "/">>), id |-> JsString(<<"s2">>)])
  /\ BuiltFrom(ops[Worker].calls[2].payload, session)

\* the list a pending sequencer still works on
Remainder(op) ==
  IF op.method = "setBinderDocuments" THEN op.frame.document_ids
  ELSE op.frame.documents

\* call j of op was sent for element
SentFor(op, j, element) ==
  LET p == op.calls[j].payload
  IN IF op.method = "setBinderDocuments"
     THEN p.form.document_id__v = element
     ELSE EndsWith(p.uri, <<"/documents/">> \o ToStr(MeantNode(element)))

\* C26: setBinderDocuments and removeBinderDocuments leave the list of the
\* caller as it was passed: while they run and after they settle, fulfilled
\* or rejected at any element, it holds the elements the calls were sent
\* for, in their order, followed by the elements not yet worked on, and no
\* step changes it.
C26_CallerListUntouched ==
  /\ [](\A o \in Slots :
          IsSequencer(o) =>
            LET op == ops[o]
                list == ListOf(op)
            IN /\ Len(op.calls) <= Len(list)
               /\ \A j \in 1..Len(op.calls) : SentFor(op, j, list[j])
               /\ op.state = "pending" =>
                    Remainder(op) = SubSeq(list, Len(op.calls) + 1, Len(list))
               /\ op.state = "fulfilled" => Len(op.calls) = Len(list))
  /\ [][\A o \in Slots :
          IsSequencer(o) => ListOf(ops'[o]) = ListOf(ops[o])]_vars

C26_Witness ==
  /\ IsOp(Worker, "setBinderDocuments")
  /\ ops[Worker].state = "rejected"
  /\ Len(ops[Worker].calls) = 2
  /\ ListOf(ops[Worker]) = <<JsNumber(101), JsNumber(102), JsNumber(101)>>

====
